---- MODULE Spec2Model ----
(***************************************************************************)
(* Model of viptela_python/viptela.py: the response normalizer             *)
(* (parse_response, parse_http_success, parse_http_error), the HTTP verb   *)
(* dispatchers (_get, _put, _post, _upload) and the session manager        *)
(* (__init__, login) of class Viptela.                                     *)
(*                                                                         *)
(* A response body is a sequence of lexemes; response.json() is a          *)
(* recursive-descent parse of it and response.text is the sequence itself. *)
(* Python values are tagged records [t |-> type, ...payload fields].       *)
(*                                                                         *)
(* The module is modelled as it is meant to load: the two catalog methods  *)
(* whose def line lacks its colon (lines 361 and 369) are outside the      *)
(* model.  LoginCredentialsError and LoginTimeoutError come from the       *)
(* package's exceptions module and are modelled by their names.            *)
(***************************************************************************)
EXTENDS Integers, Sequences, FiniteSets, TLC

VARIABLES cfg, phase, login_result, session, sent, wire, last

vars == <<cfg, phase, login_result, session, sent, wire, last>>

----------------------------------------------------------------------------
(* Bounds of the model.                                                    *)

\* largest number of keys of a generated top-level success-shaped JSON object
MaxKeys == 2
\* largest number of requests one client issues in a behaviour
MaxRequests == 3

----------------------------------------------------------------------------
(* Python values.                                                          *)

\* [t |-> type name] and the payload in the field of its type: b a bool,
\* n an int, s a str, q the items of a list, f the items of a dict, raw the
\* lexemes of a raw body
NoItems == [key \in {} |-> 0]
PyVal(t, b, n, s, q, f, raw) ==
    [t |-> t, b |-> b, n |-> n, s |-> s, q |-> q, f |-> f, raw |-> raw]

None == PyVal("NoneType", FALSE, 0, "", <<>>, NoItems, <<>>)
Bool(b) == PyVal("bool", b, 0, "", <<>>, NoItems, <<>>)
Num(n) == PyVal("int", FALSE, n, "", <<>>, NoItems, <<>>)
Str(s) == PyVal("str", FALSE, 0, s, <<>>, NoItems, <<>>)
List(q) == PyVal("list", FALSE, 0, "", q, NoItems, <<>>)
Dict(f) == PyVal("dict", FALSE, 0, "", <<>>, f, <<>>)
\* an exception object bound by "except ValueError as e"
Exc(name) == PyVal("exception", FALSE, 0, name, <<>>, NoItems, <<>>)
\* the str holding a raw body; the empty body is the str ''
Text(ts) == IF ts = <<>> THEN Str("") ELSE PyVal("rawstr", FALSE, 0, "", <<>>, NoItems, ts)

EmptyDict == Dict(NoItems)

\* Python truth value of an object, as tested by "if x:"
Truthy(x) ==
    CASE x.t = "NoneType" -> FALSE
      [] x.t = "bool" -> x.b
      [] x.t = "int" -> x.n # 0
      [] x.t = "str" -> x.s # ""
      [] x.t = "rawstr" -> Len(x.raw) > 0
      [] x.t = "list" -> Len(x.q) > 0
      [] x.t = "dict" -> DOMAIN x.f # {}
      [] OTHER -> TRUE

\* dict.get(key): the value, or None when the key is absent
DictGet(d, key) == IF key \in DOMAIN d.f THEN d.f[key] ELSE None

----------------------------------------------------------------------------
(* Lexemes of a body and the JSON text of a value.                         *)

Tok(k, v, n) == [k |-> k, v |-> v, n |-> n]
P(c) == Tok("punct", c, 0)
LitTok(w) == Tok("lit", w, 0)
NumTok(n) == Tok("num", "", n)
StrTok(s) == Tok("str", s, 0)
RawTok(s) == Tok("raw", s, 0)

IsP(tk, c) == tk.k = "punct" /\ tk.v = c

\* the order in which a generated object's members are written
KeyOrder == <<"id", "data", "config", "templateDefinition", "error",
              "details", "message", "other">>

RECURSIVE Dumps(_), DumpElems(_, _), DumpMembers(_, _, _)
\* the JSON text a server writes for value x
Dumps(x) ==
    CASE x.t = "NoneType" -> <<LitTok("null")>>
      [] x.t = "bool" -> <<LitTok(IF x.b THEN "true" ELSE "false")>>
      [] x.t = "int" -> <<NumTok(x.n)>>
      [] x.t = "str" -> <<StrTok(x.s)>>
      [] x.t = "list" -> <<P("[")>> \o DumpElems(x.q, 1) \o <<P("]")>>
      [] x.t = "dict" -> <<P("{")>> \o DumpMembers(x.f, 1, TRUE) \o <<P("}")>>

DumpElems(q, i) ==
    IF i > Len(q) THEN <<>>
    ELSE (IF i > 1 THEN <<P(",")>> ELSE <<>>) \o Dumps(q[i]) \o DumpElems(q, i + 1)

DumpMembers(f, i, first) ==
    IF i > Len(KeyOrder) THEN <<>>
    ELSE IF KeyOrder[i] \in DOMAIN f
         THEN (IF first THEN <<>> ELSE <<P(",")>>)
              \o <<StrTok(KeyOrder[i]), P(":")>> \o Dumps(f[KeyOrder[i]])
              \o DumpMembers(f, i + 1, FALSE)
         ELSE DumpMembers(f, i + 1, first)

----------------------------------------------------------------------------
(* response.json(): parse of the body, or ValueError.                      *)

ParseFail == [ok |-> FALSE, val |-> None, next |-> 0]
ParseOk(x, n) == [ok |-> TRUE, val |-> x, next |-> n]

RECURSIVE ParseValue(_, _), ParseElems(_, _, _), ParseMembers(_, _, _)
ParseValue(ts, i) ==
    IF i > Len(ts) THEN ParseFail
    ELSE LET tk == ts[i] IN
         CASE tk.k = "lit" ->
                  ParseOk(CASE tk.v = "null" -> None
                            [] tk.v = "true" -> Bool(TRUE)
                            [] tk.v = "false" -> Bool(FALSE), i + 1)
           [] tk.k = "num" -> ParseOk(Num(tk.n), i + 1)
           [] tk.k = "str" -> ParseOk(Str(tk.v), i + 1)
           [] IsP(tk, "[") ->
                  IF i + 1 <= Len(ts) /\ IsP(ts[i + 1], "]")
                  THEN ParseOk(List(<<>>), i + 2)
                  ELSE ParseElems(ts, i + 1, <<>>)
           [] IsP(tk, "{") ->
                  IF i + 1 <= Len(ts) /\ IsP(ts[i + 1], "}")
                  THEN ParseOk(EmptyDict, i + 2)
                  ELSE ParseMembers(ts, i + 1, NoItems)
           [] OTHER -> ParseFail

ParseElems(ts, i, acc) ==
    LET r == ParseValue(ts, i) IN
    IF ~r.ok \/ r.next > Len(ts) THEN ParseFail
    ELSE IF IsP(ts[r.next], ",") THEN ParseElems(ts, r.next + 1, Append(acc, r.val))
    ELSE IF IsP(ts[r.next], "]") THEN ParseOk(List(Append(acc, r.val)), r.next + 1)
    ELSE ParseFail

ParseMembers(ts, i, acc) ==
    IF i + 1 > Len(ts) \/ ts[i].k # "str" \/ ~IsP(ts[i + 1], ":") THEN ParseFail
    ELSE LET r == ParseValue(ts, i + 2)
             \* a repeated key keeps its last value
             acc2 == [key \in DOMAIN acc \cup {ts[i].v} |->
                         IF key = ts[i].v THEN r.val ELSE acc[key]]
         IN  IF ~r.ok \/ r.next > Len(ts) THEN ParseFail
             ELSE IF IsP(ts[r.next], ",") THEN ParseMembers(ts, r.next + 1, acc2)
             ELSE IF IsP(ts[r.next], "}") THEN ParseOk(Dict(acc2), r.next + 1)
             ELSE ParseFail

\* json.loads(text): [ok, val]; ok = FALSE stands for the ValueError it raises
Loads(ts) ==
    LET r == ParseValue(ts, 1) IN
    IF r.ok /\ r.next = Len(ts) + 1 THEN [ok |-> TRUE, val |-> r.val]
    ELSE [ok |-> FALSE, val |-> None]

----------------------------------------------------------------------------
(* Status tables.                                                          *)

HTTP_SUCCESS_CODES == (200 :> "Success")

HTTP_ERROR_CODES ==
    (400 :> "Bad Request") @@ (403 :> "Forbidden") @@ (404 :> "API Not found")
    @@ (406 :> "Not Acceptable Response") @@ (415 :> "Unsupported Media Type")
    @@ (500 :> "Internal Server Error")

HTTP_RESPONSE_CODES == HTTP_SUCCESS_CODES @@ HTTP_ERROR_CODES

----------------------------------------------------------------------------
(* Responses and results.                                                  *)

Response(method, status, text) ==
    [method |-> method, status_code |-> status, text |-> text]

\* ok with the threshold of the server errors
ResponseOk_Below500(response) == response.status_code < 500

\* requests.Response.ok: raise_for_status() does not raise
ResponseOk(response) == response.status_code < 400

NoResponse == Response("", 0, <<>>)

Result(ok, status_code, error, reason, data, response) ==
    [ok |-> ok, status_code |-> status_code, error |-> error, reason |-> reason,
     data |-> data, response |-> response]

NoResult == Result(FALSE, 0, None, None, None, NoResponse)

\* what a call does: returns a Result, returns None, or raises
Return(result) == [kind |-> "return", result |-> result, exc |-> "", arg |-> <<>>]
ReturnNone == [kind |-> "none", result |-> NoResult, exc |-> "", arg |-> <<>>]
Raise(exc, arg) == [kind |-> "raise", result |-> NoResult, exc |-> exc, arg |-> arg]

----------------------------------------------------------------------------
(* The response normalizer.                                                *)

\* x[key] for a str key: KeyError on a dict without it, TypeError on any
\* object that is not a dict
Subscript(x, key) ==
    IF x.t = "dict"
    THEN IF key \in DOMAIN x.f THEN [ok |-> TRUE, val |-> x.f[key], exc |-> ""]
         ELSE [ok |-> FALSE, val |-> None, exc |-> "KeyError"]
    ELSE [ok |-> FALSE, val |-> None, exc |-> "TypeError"]

\* the GET branch without the error text of its last alternative
SuccessGetShape_NoError(j) ==
    IF Truthy(DictGet(j, "data")) THEN [data |-> j.f["data"], error |-> Str("")]
    ELSE IF Truthy(DictGet(j, "config")) THEN [data |-> j.f["config"], error |-> Str("")]
    ELSE IF Truthy(DictGet(j, "templateDefinition"))
         THEN [data |-> j.f["templateDefinition"], error |-> Str("")]
    ELSE [data |-> EmptyDict, error |-> Str("")]

\* the GET branch of parse_http_success: first truthy of data, config,
\* templateDefinition; [data, error]
SuccessGetShape(j) ==
    IF Truthy(DictGet(j, "data")) THEN [data |-> j.f["data"], error |-> Str("")]
    ELSE IF Truthy(DictGet(j, "config")) THEN [data |-> j.f["config"], error |-> Str("")]
    ELSE IF Truthy(DictGet(j, "templateDefinition"))
         THEN [data |-> j.f["templateDefinition"], error |-> Str("")]
    ELSE [data |-> EmptyDict, error |-> Str("No data received from device")]

\* the last branch of parse_http_success (non-GET, body not empty)
SuccessOtherShape(j, text) ==
    IF Truthy(DictGet(j, "id")) THEN j.f["id"]
    ELSE IF Truthy(DictGet(j, "data")) THEN j.f["data"]
    ELSE Text(text)

parse_http_success(response) ==
    IF response.status_code \notin DOMAIN HTTP_RESPONSE_CODES
    THEN Raise("KeyError", <<>>)
    ELSE
    LET reason == Str(HTTP_RESPONSE_CODES[response.status_code])
        parsed == Loads(response.text)
        j == parsed.val
    IN  IF response.method \in {"GET"}
        THEN IF ~parsed.ok THEN Raise("ValueError", <<>>)
             ELSE IF j.t # "dict" THEN Raise("AttributeError", <<>>)
             ELSE LET s == SuccessGetShape(j) IN
                  Return(Result(ResponseOk(response), response.status_code,
                                s.error, reason, s.data, response))
        ELSE IF response.text \in {<<>>}
        THEN Return(Result(ResponseOk(response), response.status_code,
                           Str(""), reason, Text(response.text), response))
        ELSE IF ~parsed.ok THEN Raise("ValueError", <<>>)
             ELSE IF j.t # "dict" THEN Raise("AttributeError", <<>>)
             ELSE Return(Result(ResponseOk(response), response.status_code,
                                Str(""), reason,
                                SuccessOtherShape(j, response.text), response))

\* outcome of an extraction branch: the fields it sets, or the exception
\* that escapes it
Shape(reason, error, data) == [exc |-> "", reason |-> reason, error |-> error, data |-> data]
Escapes(exc) == [exc |-> exc, reason |-> None, error |-> None, data |-> None]

\* the try block with details and message exchanged
ErrorTry_Swapped(j) ==
    LET e == Subscript(j, "error")
        details == Subscript(e.val, "details")
        message == Subscript(e.val, "message")
    IN  IF ~e.ok THEN Escapes(e.exc)
        ELSE IF ~details.ok THEN Escapes(details.exc)
        ELSE IF ~message.ok THEN Escapes(message.exc)
        ELSE Shape(message.val, details.val, EmptyDict)

\* the try block of parse_http_error, on the parsed body j
ErrorTry(j) ==
    LET e == Subscript(j, "error")
        details == Subscript(e.val, "details")
        message == Subscript(e.val, "message")
    IN  IF ~e.ok THEN Escapes(e.exc)
        ELSE IF ~details.ok THEN Escapes(details.exc)
        ELSE IF ~message.ok THEN Escapes(message.exc)
        ELSE Shape(details.val, message.val, EmptyDict)

\* the except block without the phrase lookup
ErrorExcept_NoReason(response) ==
    Shape(Str(""), Exc("ValueError"), EmptyDict)

\* the except ValueError block of parse_http_error
ErrorExcept(response) ==
    IF response.status_code \notin DOMAIN HTTP_RESPONSE_CODES
    THEN Escapes("KeyError")
    ELSE Shape(Str(HTTP_RESPONSE_CODES[response.status_code]), Exc("ValueError"),
               EmptyDict)

parse_http_error(response) ==
    LET parsed == Loads(response.text)
        s == IF parsed.ok THEN ErrorTry(parsed.val) ELSE ErrorExcept(response)
    IN  IF s.exc # "" THEN Raise(s.exc, <<>>)
        ELSE Return(Result(ResponseOk(response), response.status_code,
                           s.error, s.reason, s.data, response))

parse_response(response) ==
    IF response.status_code \in DOMAIN HTTP_SUCCESS_CODES
    THEN parse_http_success(response)
    ELSE IF response.status_code \in DOMAIN HTTP_ERROR_CODES
    THEN parse_http_error(response)
    ELSE ReturnNone

----------------------------------------------------------------------------
(* The HTTP verb dispatchers.  The answer of the server to the request is  *)
(* [status, text]; the verb of the request is the dispatcher's.            *)

_get(answer) == parse_response(Response("GET", answer.status, answer.text))

_put(answer) == parse_response(Response("PUT", answer.status, answer.text))

_post(answer) == parse_response(Response("POST", answer.status, answer.text))

_upload(answer) == parse_response(Response("POST", answer.status, answer.text))

----------------------------------------------------------------------------
(* The session manager.                                                    *)

DefaultPort == 8443

\* 'https://{0}:{1}/dataservice'.format(vmanage_server, vmanage_server_port)
BaseUrl(host, port) == <<"https://", host, ":", port, "/dataservice">>

Config(user, user_pass, host, auto) ==
    [user |-> user, user_pass |-> user_pass, vmanage_server |-> host,
     vmanage_server_port |-> DefaultPort, auto_login |-> auto,
     base_url |-> BaseUrl(host, DefaultPort)]

\* the request login() posts
LoginRequest(c) ==
    [method |-> "POST", url |-> <<c.base_url, "/j_security_check">>,
     data |-> [j_username |-> c.user, j_password |-> c.user_pass]]

\* str.startswith('<html>')
StartsWithHtml(text) == Len(text) > 0 /\ text[1] = RawTok("<html>")

\* what the network does with a request: a response arrives, the connection
\* cannot be made (requests.exceptions.ConnectionError), or the read times
\* out (requests.exceptions.ReadTimeout, which is no ConnectionError)
Answer(status, text) == [kind |-> "response", status |-> status, text |-> text]
ConnectionError == [kind |-> "ConnectionError", status |-> 0, text |-> <<>>]
ReadTimeout == [kind |-> "ReadTimeout", status |-> 0, text |-> <<>>]
NoAnswer == [kind |-> "", status |-> 0, text |-> <<>>]

\* login without its except clause: the ConnectionError escapes as it is
login_NoExcept(c, net) ==
    IF net.kind # "response" THEN Raise(net.kind, <<>>)
    ELSE LET res == _post(net) IN
         IF res.kind = "raise" THEN res
         ELSE IF res.kind = "none" THEN Raise("AttributeError", <<>>)
         ELSE IF StartsWithHtml(res.result.response.text)
         THEN Raise("LoginCredentialsError",
                    <<"Could not login to device, check user credentials">>)
         ELSE res

\* login with the test of the HTML heuristic negated
login_HtmlCheckInverted(c, net) ==
    IF net.kind = "ConnectionError"
    THEN Raise("LoginTimeoutError", <<"Could not connect to ", c.vmanage_server>>)
    ELSE IF net.kind # "response" THEN Raise(net.kind, <<>>)
    ELSE LET res == _post(net) IN
         IF res.kind = "raise" THEN res
         ELSE IF res.kind = "none"
         THEN \* None has no attribute 'response'
              Raise("AttributeError", <<>>)
         ELSE IF ~StartsWithHtml(res.result.response.text)
         THEN Raise("LoginCredentialsError",
                    <<"Could not login to device, check user credentials">>)
         ELSE res

login(c, net) ==
    IF net.kind = "ConnectionError"
    THEN Raise("LoginTimeoutError", <<"Could not connect to ", c.vmanage_server>>)
    ELSE IF net.kind # "response" THEN Raise(net.kind, <<>>)
    ELSE LET res == _post(net) IN
         IF res.kind = "raise" THEN res
         ELSE IF res.kind = "none"
         THEN \* None has no attribute 'response'
              Raise("AttributeError", <<>>)
         ELSE IF StartsWithHtml(res.result.response.text)
         THEN Raise("LoginCredentialsError",
                    <<"Could not login to device, check user credentials">>)
         ELSE res

----------------------------------------------------------------------------
(* The endpoint catalog.                                                   *)

\* '{0}/system/device/{1}'.format(self.base_url, device_type), for the
\* device types that pass the test
DevicePath ==
    ("vedges" :> "/system/device/vedges")
    @@ ("controllers" :> "/system/device/controllers")

\* the request _get issues for a url
GetRequest(url) ==
    [method |-> "GET", url |-> url, data |-> [j_username |-> "", j_password |-> ""]]

\* session.get(...) inside _get: the response is normalized, an exception of
\* the network escapes
GetOutcome(net) ==
    IF net.kind = "response" THEN _get(net) ELSE Raise(net.kind, <<>>)

\* [requests issued, outcome] of get_device_by_type(device_type)
get_device_by_type(c, device_type, net) ==
    IF device_type \notin {"vedges", "controllers"}
    THEN [requests |-> <<>>,
          out |-> Raise("ValueError", <<"Invalid device type: ", device_type>>)]
    ELSE [requests |-> <<GetRequest(<<c.base_url, DevicePath[device_type]>>)>>,
          out |-> GetOutcome(net)]

----------------------------------------------------------------------------
(* What the server can answer.                                             *)

Statuses == {200, 201, 400, 401, 403, 404, 406, 415, 500, 503}

Vals == {None, Bool(FALSE), Num(0), Str(""), List(<<>>), EmptyDict,
         Num(7), Str("x"), List(<<Num(1)>>), Dict("other" :> Num(1))}

ShapeKeys == {"id", "data", "config", "templateDefinition", "other"}

ShapeObjects ==
    {Dict(f) : f \in UNION {[K -> Vals] :
                   K \in {S \in SUBSET ShapeKeys : Cardinality(S) <= MaxKeys}}}

DetailVals == {Str("Server error"), Str(""), None, Num(0)}

ErrorVals ==
    {Dict(f) : f \in UNION {[K -> DetailVals] : K \in SUBSET {"details", "message"}}}
    \cup {None, Str("x"), List(<<>>)}

ErrorObjects == {Dict("error" :> e) : e \in ErrorVals}

HtmlPage == <<RawTok("<html>"), RawTok("login"), RawTok("</html>")>>

NonJsonBodies ==
    {<<>>, HtmlPage, <<RawTok("Bad Gateway")>>,
     <<P("{"), StrTok("data"), P(":")>>,
     <<P("{"), StrTok("data"), P(":"), NumTok(1), P("}"), P("}")>>}

Bodies == {Dumps(x) : x \in ShapeObjects \cup ErrorObjects \cup Vals} \cup NonJsonBodies

Answers == {Answer(st, b) : st \in Statuses, b \in Bodies}

LoginBodies ==
    {<<>>, HtmlPage, <<RawTok("Bad Gateway")>>, Dumps(EmptyDict),
     Dumps(Dict("id" :> Num(7))),
     Dumps(Dict("error" :> Dict("details" :> Str("Server error")
                                 @@ "message" :> Str("")))) }

LoginNets ==
    {Answer(st, b) : st \in Statuses, b \in LoginBodies} \cup {ConnectionError, ReadTimeout}

GetBodies ==
    {<<>>, HtmlPage, Dumps(EmptyDict), Dumps(List(<<>>)),
     Dumps(Dict("data" :> List(<<Num(1)>>)))}

GetStatuses == {200, 401, 404}

GetNets == {Answer(st, b) : st \in GetStatuses, b \in GetBodies} \cup {ConnectionError}

DeviceTypes == {"vedges", "controllers", "foo", ""}

Hosts == {"vmanage1", "10.0.0.1"}
Users == {"admin"}
Passwords == {"secret"}

----------------------------------------------------------------------------
(* State.                                                                  *)

NoConfig == Config("", "", "", FALSE)
\* the instance has no attribute login_result
NoAttr == [kind |-> "unset", result |-> NoResult, exc |-> "", arg |-> <<>>]
Call(op, net, out) == [op |-> op, net |-> net, out |-> out]
NoCall == Call("", NoAnswer, ReturnNone)

Init ==
    /\ cfg = NoConfig
    /\ phase = "new"
    /\ login_result = NoAttr
    /\ session = "Unauthenticated"
    /\ sent = <<>>
    /\ wire = NoAnswer
    /\ last = NoCall

\* Viptela(user, user_pass, vmanage_server, auto_login=auto)
Construct(user, user_pass, host, auto, net) ==
    /\ phase = "new"
    /\ wire = NoAnswer
    /\ cfg' = Config(user, user_pass, host, auto)
    /\ IF auto
       THEN LET o == login(cfg', net) IN
            /\ sent' = Append(sent, LoginRequest(cfg'))
            /\ last' = Call("__init__", net, o)
            /\ IF o.kind = "return"
               THEN /\ login_result' = o
                    /\ session' = "Authenticated"
                    /\ phase' = "ready"
               ELSE /\ login_result' = NoAttr
                    /\ session' = "Failed"
                    /\ phase' = "failed"
       ELSE /\ sent' = sent
            /\ last' = Call("__init__", NoAnswer, ReturnNone)
            /\ login_result' = NoAttr
            /\ session' = "Unauthenticated"
            /\ phase' = "ready"
    /\ UNCHANGED wire

\* client.login()
Login(net) ==
    /\ phase = "ready"
    /\ Len(sent) < MaxRequests
    /\ LET o == login(cfg, net) IN
       /\ sent' = Append(sent, LoginRequest(cfg))
       /\ last' = Call("login", net, o)
       /\ session' = IF o.kind = "return" THEN "Authenticated" ELSE "Failed"
    /\ UNCHANGED <<cfg, phase, login_result, wire>>

\* client.get_device_by_type(device_type)
GetDeviceByType(device_type, net) ==
    /\ phase = "ready"
    /\ Len(sent) < MaxRequests
    /\ LET r == get_device_by_type(cfg, device_type, net) IN
       /\ sent' = sent \o r.requests
       /\ last' = Call("get_device_by_type",
                       IF r.requests = <<>> THEN NoAnswer ELSE net, r.out)
    /\ UNCHANGED <<cfg, phase, login_result, session, wire>>

Next ==
    \/ \E user \in Users, user_pass \in Passwords, host \in Hosts,
          auto \in BOOLEAN, net \in LoginNets :
          Construct(user, user_pass, host, auto, net)
    \/ \E net \in LoginNets : Login(net)
    \/ \E device_type \in DeviceTypes, net \in GetNets :
          GetDeviceByType(device_type, net)

Spec == Init /\ [][Next]_vars

----------------------------------------------------------------------------
(* The dispatchers on their own: the server's answer is fixed at the start *)
(* and one dispatcher is applied to it.                                    *)

NormInit ==
    /\ cfg = NoConfig
    /\ phase = "new"
    /\ login_result = NoAttr
    /\ session = "Unauthenticated"
    /\ sent = <<>>
    /\ wire \in Answers
    /\ last = NoCall

Dispatch(op, out) ==
    /\ wire # NoAnswer
    /\ last' = Call(op, wire, out)
    /\ wire' = NoAnswer
    /\ UNCHANGED <<cfg, phase, login_result, session, sent>>

Get == Dispatch("_get", _get(wire))
Put == Dispatch("_put", _put(wire))
Post == Dispatch("_post", _post(wire))
Upload == Dispatch("_upload", _upload(wire))

NormNext == Get \/ Put \/ Post \/ Upload

NormSpec == NormInit /\ [][NormNext]_vars

----------------------------------------------------------------------------
(* Properties.                                                             *)

Dispatchers == {"_get", "_put", "_post", "_upload"}
ErrorStatuses == {400, 403, 404, 406, 415, 500}

\* the response the last dispatcher call was given, as parsed JSON
LastJson == Loads(last.net.text)
LastDispatched == last.op \in Dispatchers /\ last.net.kind = "response"

\* C1: every dispatcher call that was given a completed response, whatever
\* its status and body, returns a Result: it neither raises nor returns None.
\* (NormSpec)
C1_DispatcherReturnsResult ==
    LastDispatched => last.out.kind = "return"

\* the last call was login(), called by the caller or by the constructor of
\* a client with auto_login
LastLogin ==
    \/ last.op = "login"
    \/ last.op = "__init__" /\ cfg.auto_login

\* C2: a login whose response body begins with '<html>' raises
\* LoginCredentialsError and nothing else, whatever the status, 200 included.
\* (Spec)
C2_HtmlLoginRaisesCredentialsError ==
    (LastLogin /\ last.net.kind = "response" /\ StartsWithHtml(last.net.text))
        => (last.out.kind = "raise" /\ last.out.exc = "LoginCredentialsError")

\* C3: a GET response with status 200 whose body is a JSON object with the key
\* 'data' gives a Result with ok = true and data = the value of that key,
\* for every value, the falsy ones included.  (NormSpec)
C3_GetDataPayload ==
    (/\ LastDispatched /\ last.op = "_get" /\ last.net.status = 200
     /\ LastJson.ok /\ LastJson.val.t = "dict" /\ "data" \in DOMAIN LastJson.val.f)
        => (/\ last.out.kind = "return"
            /\ last.out.result.ok
            /\ last.out.result.data = LastJson.val.f["data"])

\* C4: every Result of the normalizer has ok = true exactly when its
\* status_code is 200, and ok = false for 400, 403, 404, 406, 415 and 500,
\* whatever the body and the extraction branch.  (NormSpec)
C4_OkIffSuccessStatus ==
    (LastDispatched /\ last.out.kind = "return")
        => (/\ last.out.result.status_code = last.net.status
            /\ last.out.result.ok <=> (last.out.result.status_code \in {200})
            /\ last.out.result.status_code \in ErrorStatuses => ~last.out.result.ok)

\* a Result with ok = true although its extraction found no payload
C4_Witness ==
    /\ LastDispatched /\ last.out.kind = "return"
    /\ last.out.result.ok
    /\ last.out.result.error = Str("No data received from device")

\* C5: after a login() that returned, called by the constructor or by the
\* caller, login_result holds the Result of that call.  (Spec)
C5_LoginRecordHoldsResult ==
    (LastLogin /\ last.out.kind = "return") => login_result = last.out

\* the answer of the server to a login it accepts: 200 with an empty body
Accepted(net) == net.kind = "response" /\ net.status = 200 /\ net.text = <<>>

\* C6: construction with auto_login = false sends nothing and leaves the
\* session Unauthenticated; every later login() the server accepts sends
\* exactly one login request, returns and leaves the session Authenticated,
\* also when a login was already performed.  (Spec)
C6_ExplicitLoginRoundTrip ==
    [][/\ (phase = "new" /\ ~cfg'.auto_login)
            => (sent' = <<>> /\ session' = "Unauthenticated" /\ phase' = "ready")
       /\ (phase = "ready" /\ last'.op = "login" /\ Accepted(last'.net))
            => (/\ sent' = Append(sent, LoginRequest(cfg))
                /\ last'.out.kind = "return"
                /\ session' = "Authenticated")]_vars

\* a client built without auto-login whose second login() was accepted
C6_Witness ==
    /\ ~cfg.auto_login /\ phase = "ready"
    /\ Len(sent) = 2
    /\ last.op = "login" /\ Accepted(last.net) /\ last.out.kind = "return"
    /\ session = "Authenticated"

\* the body is {"error": {"details": D, "message": M}}
IsErrorDetail(j) ==
    /\ j.t = "dict" /\ DOMAIN j.f = {"error"}
    /\ j.f["error"].t = "dict"
    /\ DOMAIN j.f["error"].f = {"details", "message"}

\* C7: a response with status 400, 403, 404, 406, 415 or 500 whose body is
\* the JSON {"error": {"details": D, "message": M}} gives a Result with
\* ok = false, reason = D and error = M.  (NormSpec)
C7_ErrorDetail ==
    (/\ LastDispatched /\ last.net.status \in ErrorStatuses
     /\ LastJson.ok /\ IsErrorDetail(LastJson.val))
        => (/\ last.out.kind = "return"
            /\ ~last.out.result.ok
            /\ last.out.result.reason = LastJson.val.f["error"].f["details"]
            /\ last.out.result.error = LastJson.val.f["error"].f["message"])

\* an error Result whose reason and error differ and come from the body
C7_Witness ==
    /\ LastDispatched /\ last.net.status = 403
    /\ LastJson.ok /\ IsErrorDetail(LastJson.val)
    /\ last.out.kind = "return"
    /\ last.out.result.reason = Str("Server error")
    /\ last.out.result.error = None

\* the phrases of the status table
C8_Phrase ==
    (400 :> "Bad Request") @@ (403 :> "Forbidden") @@ (404 :> "API Not found")
    @@ (406 :> "Not Acceptable Response") @@ (415 :> "Unsupported Media Type")
    @@ (500 :> "Internal Server Error")

\* C8: a response with status 400, 403, 404, 406, 415 or 500 whose body is
\* not JSON gives a Result with ok = false, reason = the phrase of the
\* status, error = the parse failure and data = the empty mapping.  (NormSpec)
C8_ErrorFallback ==
    (LastDispatched /\ last.net.status \in ErrorStatuses /\ ~LastJson.ok)
        => (/\ last.out.kind = "return"
            /\ ~last.out.result.ok
            /\ last.out.result.reason = Str(C8_Phrase[last.net.status])
            /\ last.out.result.error = Exc("ValueError")
            /\ last.out.result.data = EmptyDict)

\* an error Result made from an HTML page
C8_Witness ==
    /\ LastDispatched /\ last.net.status = 404 /\ last.net.text = HtmlPage
    /\ last.out.kind = "return"
    /\ last.out.result.reason = Str("API Not found")

\* C9: a GET response with status 200 whose body is a JSON object with none
\* of the keys data, config, templateDefinition gives a Result with
\* ok = true, data = the empty mapping and a non-empty error string.
\* (NormSpec)
C9_GetNoPayloadKey ==
    (/\ LastDispatched /\ last.op = "_get" /\ last.net.status = 200
     /\ LastJson.ok /\ LastJson.val.t = "dict"
     /\ DOMAIN LastJson.val.f \cap {"data", "config", "templateDefinition"} = {})
        => (/\ last.out.kind = "return"
            /\ last.out.result.ok
            /\ last.out.result.data = EmptyDict
            /\ last.out.result.error.t = "str"
            /\ last.out.result.error.s # "")

\* such a Result for a body that has other keys
C9_Witness ==
    /\ LastDispatched /\ last.op = "_get" /\ last.net.status = 200
    /\ LastJson.ok /\ LastJson.val.t = "dict"
    /\ DOMAIN LastJson.val.f = {"id", "other"}
    /\ last.out.kind = "return" /\ last.out.result.data = EmptyDict

\* C10: a login whose POST cannot connect raises LoginTimeoutError carrying
\* the host of the client, from login() and from the constructor alike, and
\* leaves login_result as it was.  (Spec)
C10_ConnectionErrorKind ==
    [][(last'.op \in {"login", "__init__"} /\ last'.net.kind = "ConnectionError")
            => (/\ last'.out.kind = "raise"
                /\ last'.out.exc = "LoginTimeoutError"
                /\ last'.out.arg = <<"Could not connect to ", cfg'.vmanage_server>>
                /\ login_result' = login_result
                /\ (last'.op = "__init__" => phase' = "failed"))]_vars

\* a constructor that failed to connect to the second host
C10_Witness ==
    /\ last.op = "__init__" /\ last.net.kind = "ConnectionError"
    /\ phase = "failed" /\ login_result = NoAttr
    /\ last.out.exc = "LoginTimeoutError"
    /\ cfg.vmanage_server = "10.0.0.1"

\* the step was get_device_by_type refusing its argument before any request
C11_Refused ==
    /\ last'.out.kind = "raise" /\ last'.out.exc = "ValueError"
    /\ Len(last'.out.arg) = 2 /\ last'.out.arg[1] = "Invalid device type: "
    /\ last'.out.arg[2] \notin {"vedges", "controllers"}
    /\ sent' = sent

\* the step was get_device_by_type issuing one GET under the base URL for
\* one of the two device types
C11_OneGet ==
    \E device_type \in {"vedges", "controllers"} :
        sent' = Append(sent, [method |-> "GET",
                              url |-> <<cfg.base_url, DevicePath[device_type]>>,
                              data |-> [j_username |-> "", j_password |-> ""]])

\* C11: get_device_by_type('vedges' or 'controllers') issues exactly one GET
\* under the base URL and returns the Result the normalizer makes of the
\* response; with any other device type it raises the input-validation error
\* and no request has been issued.  (Spec)
C11_GetDeviceByType ==
    [][last'.op = "get_device_by_type"
        => \/ C11_Refused
           \/ /\ C11_OneGet
              /\ last'.net.kind = "response"
                    => (/\ last'.out.kind = "return"
                        /\ last'.out = parse_response(
                               Response("GET", last'.net.status, last'.net.text)))]_vars

\* C11, the part that does not rest on the normalizer returning a Result:
\* an argument other than the two device types is refused with no request
\* issued, and the two device types issue exactly one GET under the base URL
\* whose outcome is the normalizer's, whatever that is.  (Spec)
C11_ValidatedBeforeRequest ==
    [][last'.op = "get_device_by_type"
        => \/ C11_Refused
           \/ /\ C11_OneGet
              /\ last'.net.kind = "response"
                    => last'.out = parse_response(
                           Response("GET", last'.net.status, last'.net.text))]_vars

\* C12: a non-GET response with status 200 and a non-empty body gives a
\* Result whose data is the value of 'id' if the JSON body has the key 'id',
\* whatever its value, else the value of 'data' if it has that key, else the
\* raw body text; error is the empty string in all three cases.  (NormSpec)
C12_NonGetKeyPrecedence ==
    (/\ LastDispatched /\ last.op \in {"_put", "_post", "_upload"}
     /\ last.net.status = 200 /\ last.net.text # <<>>)
        => (/\ last.out.kind = "return"
            /\ last.out.result.error = Str("")
            /\ last.out.result.data =
                  IF LastJson.ok /\ LastJson.val.t = "dict"
                                 /\ "id" \in DOMAIN LastJson.val.f
                  THEN LastJson.val.f["id"]
                  ELSE IF LastJson.ok /\ LastJson.val.t = "dict"
                                      /\ "data" \in DOMAIN LastJson.val.f
                  THEN LastJson.val.f["data"]
                  ELSE Text(last.net.text))

\* C12 for the bodies that are JSON objects: the precedence alone
C12_ObjectKeyPrecedence ==
    (/\ LastDispatched /\ last.op \in {"_put", "_post", "_upload"}
     /\ last.net.status = 200 /\ LastJson.ok /\ LastJson.val.t = "dict"
     /\ last.net.text # <<>>)
        => (/\ last.out.kind = "return"
            /\ last.out.result.error = Str("")
            /\ last.out.result.data =
                  IF "id" \in DOMAIN LastJson.val.f THEN LastJson.val.f["id"]
                  ELSE IF "data" \in DOMAIN LastJson.val.f THEN LastJson.val.f["data"]
                  ELSE Text(last.net.text))

====
